---- MODULE Spec2Model ----
(***************************************************************************)
(* Model of flac-decoder-rs: the magic check, the metadata block loop      *)
(* (src/main.rs read_flac_hdr), the block header decoders and the          *)
(* STREAMINFO decoders of src/main.rs and src/metadata.rs.                 *)
(*                                                                         *)
(* Machine integers wider than 31 bits (u32, u64, u128) are sequences of   *)
(* bits, most significant bit first, so shifts, masks and conversions keep *)
(* their width.                                                            *)
(***************************************************************************)
EXTENDS Integers, Sequences, FiniteSets, TLC

VARIABLES
    src,            \* the bytes of the file behind the BufReader
    blocks,         \* layout src was built from: <<final, code, length>> per block
    pos,            \* bytes of src consumed by the reader so far
    pc,             \* position in read_flac_hdr: "magic", "hdr", "payload", "done"
    result,         \* the value read_flac_hdr returned (None while running)
    cur_hdr,        \* metadata_blk_hdr of the current loop iteration
    hdrs,           \* headers shown so far: [off, raw, hdr]
    infos,          \* Streaminfo records shown so far: [blk, si, got, want]
    all_full,       \* every read so far returned the requested bytes in full
    raw_hdr,        \* raw_metadata_blk_hdr: the 4 bytes of the last header read
    hdr_avail,      \* bytes that remained in src when the last 4-byte read was issued
    word,           \* input of the header decoders (SpecHdr)
    hdr_main,       \* outcome of create_metadata_blk_hdr(word)
    hdr_meta,       \* outcome of metadata.rs Header::new(word)
    payload,        \* input of the Streaminfo decoders (SpecSI)
    si_main,        \* outcome of main.rs Streaminfo::new(payload)
    si_meta         \* outcome of metadata.rs Streaminfo::new(payload)

vars == <<src, blocks, pos, pc, result, cur_hdr, hdrs, infos, all_full,
          raw_hdr, hdr_avail,
          word, hdr_main, hdr_meta, payload, si_main, si_meta>>

parse_vars ==
    <<src, blocks, pos, pc, result, cur_hdr, hdrs, infos, all_full, raw_hdr, hdr_avail>>
hdr_vars == <<word, hdr_main, hdr_meta>>
si_vars == <<payload, si_main, si_meta>>

None == [tag |-> "None"]
\* A Rust panic: the thread unwinds and the function returns nothing.
Panic == [tag |-> "Panic"]

(***************************************************************************)
(* Fixed-width unsigned integers as bit sequences, MSB first.              *)
(***************************************************************************)
RECURSIVE NatToBits(_, _)
NatToBits(n, w) == IF w = 0 THEN << >> ELSE Append(NatToBits(n \div 2, w - 1), n % 2)

RECURSIVE BitsToNatUpTo(_, _)
BitsToNatUpTo(v, k) == IF k = 0 THEN 0 ELSE 2 * BitsToNatUpTo(v, k - 1) + v[k]
BitsToNat(v) == BitsToNatUpTo(v, Len(v))

ZeroBits(w) == [i \in 1..w |-> 0]

IsZero(v) == \A i \in 1..Len(v) : v[i] = 0

\* The 8 bits of every byte value.
ByteBits == [b \in 0..255 |-> NatToBits(b, 8)]

\* uN::from_be_bytes: the bytes in order, each MSB first.
BytesToBits(bs) ==
    [i \in 1..(8 * Len(bs)) |-> ByteBits[bs[((i - 1) \div 8) + 1]][((i - 1) % 8) + 1]]

\* v << n on a fixed width: the high n bits fall off.
Shl(v, n) == SubSeq(v, n + 1, Len(v)) \o ZeroBits(n)
\* v >> n on a fixed width (logical shift).
Shr(v, n) == ZeroBits(n) \o SubSeq(v, 1, Len(v) - n)
Xor(a, b) == [i \in 1..Len(a) |-> (a[i] + b[i]) % 2]
Or(a, b) == [i \in 1..Len(a) |-> IF a[i] = 1 \/ b[i] = 1 THEN 1 ELSE 0]
And(a, b) == [i \in 1..Len(a) |-> a[i] * b[i]]
Not(a) == [i \in 1..Len(a) |-> 1 - a[i]]
\* uN::from(x) for a narrower x: zero extension to w bits.
Widen(v, w) == ZeroBits(w - Len(v)) \o v

(***************************************************************************)
(* Block header decoders.                                                  *)
(***************************************************************************)
METADATA_BLK_HDR_MASK == NatToBits(128, 8)

\* Mutant of MetadataBlkType: the arm for 127 is missing.
MetadataBlkType_NoForbidden(code) ==
    CASE code = 0 -> "Streaminfo"
      [] code = 1 -> "Padding"
      [] code = 2 -> "Application"
      [] code = 3 -> "Seektable"
      [] code = 4 -> "VorbisComment"
      [] code = 5 -> "Cuesheet"
      [] code = 6 -> "Picture"
      [] OTHER -> "Err"

\* The match arms of create_metadata_blk_hdr / Header::new over the 7-bit code.
MetadataBlkType(code) ==
    CASE code = 0 -> "Streaminfo"
      [] code = 1 -> "Padding"
      [] code = 2 -> "Application"
      [] code = 3 -> "Seektable"
      [] code = 4 -> "VorbisComment"
      [] code = 5 -> "Cuesheet"
      [] code = 6 -> "Picture"
      [] code = 127 -> "Forbidden"
      [] OTHER -> "Err"

UnexpectedBlockType(e) ==
    [tag |-> "Err", kind |-> "InvalidData", what |-> "UnexpectedBlockType", code |-> e]

\* Mutant of IsFinalBlock: the mask is one bit off (0b0100_0000).
IsFinalBlock_WrongMask(b0) == ~IsZero(And(ByteBits[b0], NatToBits(64, 8)))

\* let is_final_block = (metadata_blk[0] & METADATA_BLK_HDR_MASK) != 0;
IsFinalBlock(b0) == ~IsZero(And(ByteBits[b0], METADATA_BLK_HDR_MASK))

\* Mutant of TypeCode: the mask is not inverted.
TypeCode_NoNot(b0) == BitsToNat(And(ByteBits[b0], METADATA_BLK_HDR_MASK))

\* metadata_blk[0] & !METADATA_BLK_HDR_MASK
TypeCode(b0) == BitsToNat(And(ByteBits[b0], Not(METADATA_BLK_HDR_MASK)))

\* Mutant of HdrLength: the first byte is not shifted up before the xor.
HdrLength_NoShift(metadata_blk) ==
    Xor(BytesToBits(metadata_blk), Widen(ByteBits[metadata_blk[1]], 32))

\* u32::from_be_bytes(metadata_blk.clone()) ^ u32::from(metadata_blk[0]) << 24
\* (in Rust << binds tighter than ^); the result is a u32.
HdrLength(metadata_blk) ==
    Xor(BytesToBits(metadata_blk), Shl(Widen(ByteBits[metadata_blk[1]], 32), 24))

create_metadata_blk_hdr(metadata_blk) ==
    LET is_final_block == IsFinalBlock(metadata_blk[1])
        e == TypeCode(metadata_blk[1])
        blk_type == MetadataBlkType(e)
    IN  IF blk_type = "Err" THEN UnexpectedBlockType(e)
        ELSE [tag |-> "Ok", is_final_block |-> is_final_block, blk_type |-> blk_type,
              length |-> HdrLength(metadata_blk)]

\* metadata.rs Header::new: the same statements over Type and Header.
Header_new(raw_header) ==
    LET is_final_block == IsFinalBlock(raw_header[1])
        e == TypeCode(raw_header[1])
        blk_type == MetadataBlkType(e)
    IN  IF blk_type = "Err" THEN UnexpectedBlockType(e)
        ELSE [tag |-> "Ok", is_final_block |-> is_final_block, blk_type |-> blk_type,
              length |-> HdrLength(raw_header)]

(***************************************************************************)
(* STREAMINFO decoders.                                                    *)
(***************************************************************************)
STREAMINFO_SIZE == 34

InsufficientData ==
    [tag |-> "Err", kind |-> "InvalidInput", what |-> "InsufficientData"]

\* The closure copy_data_increase_offset: slicing raw_data[offset..offset+offset_len]
\* panics past the end, copy_from_slice panics unless both slices have one length.
copy_data_increase_offset(raw_data, offset, dst_len, offset_len) ==
    IF offset + offset_len > Len(raw_data) THEN Panic
    ELSE IF dst_len # offset_len THEN Panic
    ELSE [tag |-> "Ok", data |-> SubSeq(raw_data, offset + 1, offset + offset_len),
          offset |-> offset + offset_len]

\* Mutant of get_sr_nc_bps_tsc_u64: the bits already handed out are not masked off.
get_sr_nc_bps_tsc_u64_NoMask(raw_sr_nc_bps_tsc, st, num_bits_to_read) ==
    IF num_bits_to_read > st.remaining_len
    THEN [ret |-> ZeroBits(64), ignore_mask |-> st.ignore_mask,
          remaining_len |-> st.remaining_len]
    ELSE LET remaining == st.remaining_len - num_bits_to_read
         IN  [ret |-> Shr(raw_sr_nc_bps_tsc, remaining), ignore_mask |-> st.ignore_mask,
              remaining_len |-> remaining]

\* The closure get_sr_nc_bps_tsc_u64 over its captured ignore_mask, remaining_len.
get_sr_nc_bps_tsc_u64(raw_sr_nc_bps_tsc, st, num_bits_to_read) ==
    IF num_bits_to_read > st.remaining_len
    THEN [ret |-> ZeroBits(64), ignore_mask |-> st.ignore_mask,
          remaining_len |-> st.remaining_len]
    ELSE LET mask == Shl(st.ignore_mask, num_bits_to_read)
             remaining == st.remaining_len - num_bits_to_read
             ret == Xor(Shr(raw_sr_nc_bps_tsc, remaining), mask)
         IN  [ret |-> ret, ignore_mask |-> Or(mask, ret), remaining_len |-> remaining]

\* uW::try_from(u64).expect(..): panics when the value does not fit w bits.
TryFrom(v, w) ==
    IF IsZero(SubSeq(v, 1, Len(v) - w))
    THEN [tag |-> "Ok", val |-> BitsToNat(SubSeq(v, Len(v) - w + 1, Len(v)))]
    ELSE Panic

\* The body of Streaminfo::new after the length check, shared by both files:
\* blk_dst/blk_len and frame_dst/frame_len are the destination slice length and
\* the offset_len each file passes for the block sizes and the frame sizes.
DecodeStreaminfo(raw_data, blk_dst, blk_len, frame_dst, frame_len) ==
    LET c1 == copy_data_increase_offset(raw_data, 0, blk_dst, blk_len)
        c2 == copy_data_increase_offset(raw_data, c1.offset, blk_dst, blk_len)
        c3 == copy_data_increase_offset(raw_data, c2.offset, frame_dst, frame_len)
        c4 == copy_data_increase_offset(raw_data, c3.offset, frame_dst, frame_len)
        c5 == copy_data_increase_offset(raw_data, c4.offset, 8, 8)
        raw == BytesToBits(c5.data)
        g1 == get_sr_nc_bps_tsc_u64(raw, [ignore_mask |-> ZeroBits(64), remaining_len |-> 64], 20)
        sample_rate == TryFrom(g1.ret, 32)
        g2 == get_sr_nc_bps_tsc_u64(raw, g1, 3)
        num_channels == TryFrom(g2.ret, 8)
        g3 == get_sr_nc_bps_tsc_u64(raw, g2, 5)
        bits_per_sample == TryFrom(g3.ret, 8)
        g4 == get_sr_nc_bps_tsc_u64(raw, g3, 36)
        c6 == copy_data_increase_offset(raw_data, c5.offset, 16, 16)
    IN  IF c1 = Panic THEN Panic
        ELSE IF c2 = Panic THEN Panic
        ELSE IF c3 = Panic THEN Panic
        ELSE IF c4 = Panic THEN Panic
        ELSE IF c5 = Panic THEN Panic
        ELSE IF sample_rate = Panic THEN Panic
        ELSE IF num_channels = Panic THEN Panic
        ELSE IF bits_per_sample = Panic THEN Panic
        ELSE IF c6 = Panic THEN Panic
        ELSE [tag |-> "Ok",
              min_blk_size |-> BitsToNat(BytesToBits(c1.data)),
              max_blk_size |-> BitsToNat(BytesToBits(c2.data)),
              min_frame_size |-> BitsToNat(BytesToBits(c3.data)),
              max_frame_size |-> BitsToNat(BytesToBits(c4.data)),
              sample_rate |-> sample_rate.val,
              num_channels |-> num_channels.val,
              bits_per_sample |-> bits_per_sample.val,
              total_sample_count |-> g4.ret,
              md5_checksum |-> BytesToBits(c6.data)]

\* main.rs Streaminfo::new: 2-byte block sizes, 3-byte frame sizes.
Streaminfo_new(raw_data) ==
    IF Len(raw_data) < STREAMINFO_SIZE THEN InsufficientData
    ELSE DecodeStreaminfo(raw_data, 2, 2, 3, 3)

STREAMINFO_BLK_BIT_SIZE == 16
STREAMINFO_FRAME_BIT_SIZE == 24
STREAMINFO_SAMPLE_RATE_BIT_SIZE == 20
STREAMINFO_NUM_CHANNELS_BIT_SIZE == 3
STREAMINFO_BITS_PER_SAMPLE_BIT_SIZE == 5
STREAMINFO_TOTAL_SAMPLE_COUNT_BIT_SIZE == 36
STREAMINFO_MD5_CHECKSUM_BIT_SIZE == 128
STREAMINFO_SIZE_BITS ==
    STREAMINFO_BLK_BIT_SIZE * 2 + STREAMINFO_FRAME_BIT_SIZE * 2
    + STREAMINFO_SAMPLE_RATE_BIT_SIZE + STREAMINFO_NUM_CHANNELS_BIT_SIZE
    + STREAMINFO_BITS_PER_SAMPLE_BIT_SIZE + STREAMINFO_TOTAL_SAMPLE_COUNT_BIT_SIZE
    + STREAMINFO_MD5_CHECKSUM_BIT_SIZE
metadata_STREAMINFO_SIZE == STREAMINFO_SIZE_BITS \div 8

\* metadata.rs Streaminfo::new: the destinations are raw_blk_size[2..] (2 bytes) and
\* raw_frame_size[1..] (3 bytes), the offset_len passed are the BIT sizes 16 and 24.
metadata_Streaminfo_new(raw_streaminfo) ==
    IF Len(raw_streaminfo) < metadata_STREAMINFO_SIZE THEN InsufficientData
    ELSE DecodeStreaminfo(raw_streaminfo, 2, STREAMINFO_BLK_BIT_SIZE,
                          3, STREAMINFO_FRAME_BIT_SIZE)

(***************************************************************************)
(* Inputs of the pure decoders.                                            *)
(***************************************************************************)
Bytes == 0..255

\* Header words: every first byte, the length bytes from a few values.
LengthBytes == {0, 1, 34, 255}
HeaderWords == {<<b0, b1, b2, b3>> : b0 \in Bytes, b1 \in LengthBytes,
                                     b2 \in LengthBytes, b3 \in LengthBytes}

\* Streaminfo payloads: one fill byte, one byte poked anywhere and one byte
\* poked into the 8-byte cluster (bytes 11..18) holding the sub-byte fields.
MaxExtra == 1
PayloadLens == {0, STREAMINFO_SIZE - 1} \cup (STREAMINFO_SIZE..(STREAMINFO_SIZE + MaxExtra))
FillBytes == {0, 255}
PokeBytes == {0, 10, 64, 129, 196, 255}
AnyPokeBytes == {0, 129, 255}
ClusterPos == 11..18
MakePayload(len, fill, p1, v1, p2, v2) ==
    [i \in 1..len |-> IF i = p2 THEN v2 ELSE IF i = p1 THEN v1 ELSE fill]
\* sample_rate 44100 = 0x0AC44 in the top 20 bits of the cluster, all else zero.
Payload44100 ==
    [i \in 1..STREAMINFO_SIZE |-> CASE i = 11 -> 10 [] i = 12 -> 196 [] i = 13 -> 64
                                    [] OTHER -> 0]
Payloads ==
    {MakePayload(len, fill, p1, v1, p2, v2) :
        len \in PayloadLens, fill \in FillBytes,
        p1 \in 1..(STREAMINFO_SIZE + MaxExtra), v1 \in AnyPokeBytes,
        p2 \in ClusterPos, v2 \in PokeBytes}
    \cup {Payload44100}

ParseIdle ==
    /\ src = << >> /\ blocks = << >> /\ pos = 0 /\ pc = "idle" /\ result = None
    /\ cur_hdr = None /\ hdrs = << >> /\ infos = << >>
    /\ all_full = TRUE /\ raw_hdr = None /\ hdr_avail = 0
HdrIdle == word = << >> /\ hdr_main = None /\ hdr_meta = None
SIIdle == payload = << >> /\ si_main = None /\ si_meta = None

(***************************************************************************)
(* SpecHdr: both header decoders applied to one 4-byte word.               *)
(***************************************************************************)
InitHdr ==
    /\ word \in HeaderWords /\ hdr_main = None /\ hdr_meta = None
    /\ ParseIdle /\ SIIdle

CallCreateMetadataBlkHdr ==
    /\ Len(word) = 4 /\ hdr_main = None
    /\ hdr_main' = create_metadata_blk_hdr(word)
    /\ UNCHANGED <<word, hdr_meta, parse_vars, si_vars>>

CallHeaderNew ==
    /\ Len(word) = 4 /\ hdr_meta = None
    /\ hdr_meta' = Header_new(word)
    /\ UNCHANGED <<word, hdr_main, parse_vars, si_vars>>

NextHdr == CallCreateMetadataBlkHdr \/ CallHeaderNew
SpecHdr == InitHdr /\ [][NextHdr]_vars

(***************************************************************************)
(* SpecSI: both Streaminfo decoders applied to one payload.                *)
(***************************************************************************)
InitSI ==
    /\ payload \in Payloads /\ si_main = None /\ si_meta = None
    /\ ParseIdle /\ HdrIdle

CallStreaminfoNew ==
    /\ pc = "idle" /\ word = << >> /\ si_main = None
    /\ si_main' = Streaminfo_new(payload)
    /\ UNCHANGED <<payload, si_meta, parse_vars, hdr_vars>>

CallMetadataStreaminfoNew ==
    /\ pc = "idle" /\ word = << >> /\ si_meta = None
    /\ si_meta' = metadata_Streaminfo_new(payload)
    /\ UNCHANGED <<payload, si_main, parse_vars, hdr_vars>>

NextSI == CallStreaminfoNew \/ CallMetadataStreaminfoNew
SpecSI == InitSI /\ [][NextSI]_vars

(***************************************************************************)
(* Reference values the claims compare the decoders with.                  *)
(***************************************************************************)
\* Bits lo..hi (0 = first bit of the payload) of the first 34 bytes, MSB first.
PayloadBits(p) == BytesToBits(SubSeq(p, 1, STREAMINFO_SIZE))
Field(bits, lo, hi) == SubSeq(bits, lo + 1, hi + 1)

RefStreaminfo(p) ==
    LET b == PayloadBits(p)
    IN  [tag |-> "Ok",
         min_blk_size |-> BitsToNat(Field(b, 0, 15)),
         max_blk_size |-> BitsToNat(Field(b, 16, 31)),
         min_frame_size |-> BitsToNat(Field(b, 32, 55)),
         max_frame_size |-> BitsToNat(Field(b, 56, 79)),
         sample_rate |-> BitsToNat(Field(b, 80, 99)),
         num_channels |-> BitsToNat(Field(b, 100, 102)),
         bits_per_sample |-> BitsToNat(Field(b, 103, 107)),
         total_sample_count |-> Widen(Field(b, 108, 143), 64),
         md5_checksum |-> Field(b, 144, 271)]

\* The inverse packing: each field at its width, in order.
Repack(si) ==
    NatToBits(si.min_blk_size, 16) \o NatToBits(si.max_blk_size, 16)
    \o NatToBits(si.min_frame_size, 24) \o NatToBits(si.max_frame_size, 24)
    \o NatToBits(si.sample_rate, 20) \o NatToBits(si.num_channels, 3)
    \o NatToBits(si.bits_per_sample, 5) \o SubSeq(si.total_sample_count, 29, 64)
    \o si.md5_checksum

FitsWidths(si) ==
    /\ si.min_blk_size < 65536 /\ si.max_blk_size < 65536
    /\ si.min_frame_size < 16777216 /\ si.max_frame_size < 16777216
    /\ si.sample_rate < 1048576 /\ si.num_channels < 8 /\ si.bits_per_sample < 32
    /\ IsZero(SubSeq(si.total_sample_count, 1, 28))
    /\ Len(si.md5_checksum) = 128

AllZeroFields(si) ==
    /\ si.min_blk_size = 0 /\ si.max_blk_size = 0
    /\ si.min_frame_size = 0 /\ si.max_frame_size = 0
    /\ si.sample_rate = 0 /\ si.num_channels = 0 /\ si.bits_per_sample = 0
    /\ IsZero(si.total_sample_count) /\ IsZero(si.md5_checksum)

RefBlkType(code) ==
    IF code <= 6
    THEN <<"Streaminfo", "Padding", "Application", "Seektable", "VorbisComment",
           "Cuesheet", "Picture">>[code + 1]
    ELSE IF code = 127 THEN "Forbidden" ELSE "Reserved"

\* The word with bit i (0 = least significant of byte 3) flipped.
FlipBit(w, i) ==
    LET k == 4 - (i \div 8)
        bit == ByteBits[w[k]][8 - (i % 8)]
        weight == BitsToNat(Shl(NatToBits(1, 8), i % 8))
    IN  [w EXCEPT ![k] = IF bit = 1 THEN w[k] - weight ELSE w[k] + weight]

HeaderAsLaidOut(w, h) ==
    /\ h.is_final_block = (w[1] >= 128)
    /\ h.blk_type = RefBlkType(w[1] % 128)
    /\ h.blk_type # "Reserved"
    /\ h.length = BytesToBits(<<0, w[2], w[3], w[4]>>)
    /\ BitsToNat(h.length) = w[2] * 65536 + w[3] * 256 + w[4]
    /\ BitsToNat(h.length) <= 16777215

(***************************************************************************)
(* Claims about the pure decoders.                                         *)
(***************************************************************************)
\* C1: main.rs Streaminfo::new equals the reference decoder: under 34 bytes it
\* returns the InsufficientData error; from 34 bytes on it returns Ok with every
\* field equal to its bit range of the payload read MSB first, the fields fit
\* their widths (272 bits in all), re-packing them gives back the first 34 bytes,
\* an all-zero payload gives all-zero fields, and 0x0AC44 in the sample-rate bits
\* alone gives sample_rate 44100 with the other cluster fields 0.
C1_StreaminfoEqualsReference ==
    si_main # None =>
        /\ Len(payload) < 34 => si_main = InsufficientData
        /\ Len(payload) >= 34 =>
            /\ si_main = RefStreaminfo(payload)
            /\ FitsWidths(si_main)
            /\ Len(Repack(si_main)) = 272
            /\ Repack(si_main) = PayloadBits(payload)
            /\ (\A i \in 1..Len(payload) : payload[i] = 0) => AllZeroFields(si_main)
            /\ payload = Payload44100 =>
                  /\ si_main.sample_rate = 44100
                  /\ si_main.num_channels = 0 /\ si_main.bits_per_sample = 0
                  /\ IsZero(si_main.total_sample_count)

C1_Witness ==
    /\ si_main # None /\ si_main.tag = "Ok"
    /\ si_main.sample_rate = 8 /\ si_main.num_channels = 0
    /\ si_main.bits_per_sample = 16
    /\ si_main.total_sample_count = Widen(NatToBits(255, 8), 64)
    /\ si_main.min_blk_size = 0 /\ IsZero(si_main.md5_checksum)

\* C2: whenever a header decoder returns a header for a 4-byte word, is_final_block
\* is bit 31, the block type is the variant of bits 30..24, length is the
\* big-endian value of bytes 1..3 (at most 16,777,215), and flipping any one of
\* bits 0..30 of the word never changes the decoded is_final_block.
C2_HeaderLayout ==
    /\ (hdr_main # None /\ hdr_main.tag = "Ok") =>
        /\ HeaderAsLaidOut(word, hdr_main)
        /\ \A i \in 0..30 :
              LET h2 == create_metadata_blk_hdr(FlipBit(word, i))
              IN  h2.tag = "Ok" => h2.is_final_block = hdr_main.is_final_block
    /\ (hdr_meta # None /\ hdr_meta.tag = "Ok") =>
        /\ HeaderAsLaidOut(word, hdr_meta)
        /\ \A i \in 0..30 :
              LET h2 == Header_new(FlipBit(word, i))
              IN  h2.tag = "Ok" => h2.is_final_block = hdr_meta.is_final_block

C2_Witness ==
    /\ hdr_main # None /\ hdr_main.tag = "Ok"
    /\ hdr_main.is_final_block /\ hdr_main.blk_type = "Picture"
    /\ BitsToNat(hdr_main.length) = 16777215
    /\ hdr_meta = hdr_main

C10_DuplicatesAgree ==
    /\ (hdr_main # None /\ hdr_meta # None) => hdr_main = hdr_meta
    /\ (si_main # None /\ si_meta # None) => si_main = si_meta
    /\ (si_meta # None /\ Len(payload) >= 34) => si_meta # Panic

(***************************************************************************)
(* read_flac_hdr over a byte source.                                       *)
(***************************************************************************)
FLAC_HEADER == <<102, 76, 97, 67>>

is_valid_flac_hdr(flac_hdr) == flac_hdr = FLAC_HEADER

\* Sources: a 4-byte signature, up to MaxBlocks blocks, the last MaxCut bytes
\* possibly missing. Blocks after the first final one stand for the audio frames.
MaxBlocks == 2
MaxCut == 2
MaxShort == 2
Magics == {FLAC_HEADER, <<102, 76, 97, 88>>, <<82, 73, 70, 70>>}
\* <<type code, declared length>>
BlockShapes == {<<0, 2>>, <<0, 34>>, <<1, 0>>, <<1, 2>>, <<7, 2>>, <<127, 2>>}
BlockDescs == {[final |-> f, code |-> sh[1], length |-> sh[2]] :
                    f \in BOOLEAN, sh \in BlockShapes}
Layouts == UNION {[1..n -> BlockDescs] : n \in 0..MaxBlocks}

HeaderBytes(d) == <<(IF d.final THEN 128 ELSE 0) + d.code, 0, 0, d.length>>
PayloadBytes(d) == [i \in 1..d.length |-> ((i * 37) % 251) + 1]
RECURSIVE BlocksBytes(_)
BlocksBytes(l) ==
    IF Len(l) = 0 THEN << >>
    ELSE HeaderBytes(l[1]) \o PayloadBytes(l[1]) \o BlocksBytes(Tail(l))
SourceOf(magic, layout, cut) ==
    LET whole == magic \o BlocksBytes(layout)
    IN  SubSeq(whole, 1, Len(whole) - cut)

IoFault == [tag |-> "Err", kind |-> "Io", what |-> "IoFault"]
\* "File not large enough for header"
TruncatedMagic == [tag |-> "Err", kind |-> "InvalidData", what |-> "TruncatedMagic"]
\* "Invalid Metadata Block"
TruncatedHeader == [tag |-> "Err", kind |-> "InvalidData", what |-> "TruncatedHeader"]
\* "Invalid Header, Found: {0:?}, expected {1:?}" with the two values printed
BadMagic(found, expected) ==
    [tag |-> "Err", kind |-> "InvalidData", what |-> "BadMagic",
     found |-> found, expected |-> expected]
\* format!("Invalid Header, Found: {0:?}, expected {1:?}", FLAC_HEADER, flac_hdr)
InvalidHeaderError(flac_hdr) == BadMagic(FLAC_HEADER, flac_hdr)
Ok == [tag |-> "Ok"]

\* Read::read on a buffer of req bytes at pos: Err, or Ok(n) with n bytes moved;
\* n = 0 only at the end of the source or for an empty buffer. A short read
\* returns 1..MaxShort bytes.
ReadOutcomes(req) ==
    LET full == IF Len(src) - pos < req THEN Len(src) - pos ELSE req
    IN  {[err |-> TRUE, n |-> 0]}
        \cup {[err |-> FALSE, n |-> full]}
        \cup {[err |-> FALSE, n |-> k] : k \in {j \in 1..MaxShort : j < full}}

\* The buffer of req zero bytes after a read that moved n bytes into it.
Filled(req, n) == [i \in 1..req |-> IF i <= n THEN src[pos + i] ELSE 0]

InitParse ==
    /\ \E magic \in Magics, layout \in Layouts, cut \in 0..MaxCut :
          /\ magic # FLAC_HEADER => Len(layout) <= 1
          /\ src = SourceOf(magic, layout, cut)
          /\ blocks = layout
    /\ pos = 0 /\ pc = "magic" /\ result = None
    /\ cur_hdr = None /\ hdrs = << >> /\ infos = << >>
    /\ all_full = TRUE /\ raw_hdr = None /\ hdr_avail = 0

Init == InitParse /\ HdrIdle /\ SIIdle

\* Lines 199-220: read the signature and validate it.
ReadMagic ==
    /\ pc = "magic"
    /\ \E r \in ReadOutcomes(4) :
          LET flac_hdr == Filled(4, r.n)
          IN  /\ pos' = pos + r.n
              /\ all_full' = (all_full /\ ~r.err /\ r.n = 4)
              /\ hdr_avail' = Len(src) - pos
              /\ IF r.err THEN pc' = "done" /\ result' = IoFault
                 ELSE IF r.n # 4 THEN pc' = "done" /\ result' = TruncatedMagic
                 ELSE IF ~is_valid_flac_hdr(flac_hdr)
                      THEN pc' = "done" /\ result' = InvalidHeaderError(flac_hdr)
                 ELSE pc' = "hdr" /\ result' = result
    /\ UNCHANGED <<src, blocks, cur_hdr, hdrs, infos, raw_hdr, hdr_vars, si_vars>>

\* Lines 224-247: loop test, read the 4 header bytes, decode and show the header.
ReadBlkHdr ==
    /\ pc = "hdr"
    /\ \E r \in ReadOutcomes(4) :
          LET raw_metadata_blk_hdr == Filled(4, r.n)
              metadata_blk_hdr == create_metadata_blk_hdr(raw_metadata_blk_hdr)
          IN  /\ pos' = pos + r.n
              /\ all_full' = (all_full /\ ~r.err /\ r.n = 4)
              /\ hdr_avail' = Len(src) - pos
              /\ IF r.err
                 THEN /\ pc' = "done" /\ result' = IoFault
                      /\ UNCHANGED <<raw_hdr, cur_hdr, hdrs>>
                 ELSE IF r.n # 4
                 THEN /\ pc' = "done" /\ result' = TruncatedHeader
                      /\ UNCHANGED <<raw_hdr, cur_hdr, hdrs>>
                 ELSE IF metadata_blk_hdr.tag # "Ok"
                 THEN /\ pc' = "done" /\ result' = metadata_blk_hdr
                      /\ raw_hdr' = raw_metadata_blk_hdr
                      /\ UNCHANGED <<cur_hdr, hdrs>>
                 ELSE /\ pc' = "payload" /\ result' = result
                      /\ raw_hdr' = raw_metadata_blk_hdr
                      /\ cur_hdr' = metadata_blk_hdr
                      /\ hdrs' = Append(hdrs, [off |-> pos, raw |-> raw_metadata_blk_hdr,
                                               hdr |-> metadata_blk_hdr])
    /\ UNCHANGED <<src, blocks, infos, hdr_vars, si_vars>>

\* Lines 249-259: read into the zeroed payload buffer, ignoring what the read
\* returned; decode it when the block is a Streaminfo; leave the loop after the
\* final block.
ReadBlkPayload ==
    /\ pc = "payload"
    /\ \E r \in ReadOutcomes(BitsToNat(cur_hdr.length)) :
          LET length == BitsToNat(cur_hdr.length)
              raw_metadata == Filled(length, r.n)
              stream_info == Streaminfo_new(raw_metadata)
          IN  /\ pos' = pos + r.n
              /\ all_full' = (all_full /\ ~r.err /\ r.n = length)
              /\ IF cur_hdr.blk_type = "Streaminfo" /\ stream_info.tag # "Ok"
                 THEN pc' = "done" /\ result' = stream_info /\ infos' = infos
                 ELSE /\ infos' = IF cur_hdr.blk_type = "Streaminfo"
                                  THEN Append(infos, [blk |-> Len(hdrs), si |-> stream_info,
                                                      got |-> r.n, want |-> length])
                                  ELSE infos
                      /\ IF cur_hdr.is_final_block
                         THEN pc' = "done" /\ result' = Ok
                         ELSE pc' = "hdr" /\ result' = result
    /\ UNCHANGED <<src, blocks, cur_hdr, hdrs, raw_hdr, hdr_avail, hdr_vars, si_vars>>

Next == ReadMagic \/ ReadBlkHdr \/ ReadBlkPayload
Spec == Init /\ [][Next]_vars
\* read_flac_hdr is sequential code on one thread and every read returns (data,
\* end of file or a fault), so the thread advances until the function returns.
\* Next is enabled exactly while pc # "done" and each of its steps changes pc:
\* weak fairness of Advance is weak fairness of Next.
Advance == pc # "done" /\ pc' \in {"hdr", "payload", "done"} /\ pc' # pc
FairSpec == Spec /\ WF_pc(Advance)

(***************************************************************************)
(* Claims about read_flac_hdr.                                             *)
(***************************************************************************)
\* Index of the first block of the layout with the last-block flag, 0 if none.
FirstFinal == IF \E i \in 1..Len(blocks) : blocks[i].final
              THEN CHOOSE i \in 1..Len(blocks) :
                      blocks[i].final /\ \A j \in 1..(i - 1) : ~blocks[j].final
              ELSE 0

RECURSIVE OffsetOf(_)
\* Offset in src of the header of block i of the layout.
OffsetOf(i) == IF i = 1 THEN 4 ELSE OffsetOf(i - 1) + 4 + blocks[i - 1].length

\* The source is the signature followed by k >= 1 blocks of allowed type, only
\* block k final, every Streaminfo block of at least 34 bytes, all of it present.
WellFormed ==
    /\ FirstFinal >= 1
    /\ \A i \in 1..FirstFinal :
          /\ blocks[i].code \in 0..6
          /\ blocks[i].code = 0 => blocks[i].length >= STREAMINFO_SIZE
    /\ Len(src) >= OffsetOf(FirstFinal + 1)
    /\ SubSeq(src, 1, 4) = FLAC_HEADER

StreaminfoBlocks == {i \in 1..FirstFinal : blocks[i].code = 0}

\* C3: on a well-formed source with every read returned in full, read_flac_hdr
\* returns Ok, shows exactly the k headers in source order, header i decoded from
\* the 4 bytes at offset 4 + sum of (4 + length_j) over j < i, shows a Streaminfo
\* record for exactly the Streaminfo blocks (decoded from that block's payload),
\* and has consumed the source exactly up to the end of block k.
C3_WellFormedParse ==
    (pc = "done" /\ WellFormed /\ all_full) =>
        /\ result = Ok
        /\ Len(hdrs) = FirstFinal
        /\ \A i \in 1..Len(hdrs) :
              /\ hdrs[i].off = OffsetOf(i)
              /\ hdrs[i].raw = SubSeq(src, OffsetOf(i) + 1, OffsetOf(i) + 4)
              /\ hdrs[i].hdr.is_final_block = blocks[i].final
              /\ hdrs[i].hdr.blk_type = RefBlkType(blocks[i].code)
              /\ BitsToNat(hdrs[i].hdr.length) = blocks[i].length
        /\ {infos[m].blk : m \in 1..Len(infos)} = StreaminfoBlocks
        /\ Len(infos) = Cardinality(StreaminfoBlocks)
        /\ \A m \in 1..Len(infos) :
              /\ \A n \in 1..(m - 1) : infos[n].blk < infos[m].blk
              /\ infos[m].si = RefStreaminfo(SubSeq(src, OffsetOf(infos[m].blk) + 5,
                                                    OffsetOf(infos[m].blk) + 4
                                                      + blocks[infos[m].blk].length))
        /\ pos = OffsetOf(FirstFinal + 1)

C3_Witness ==
    /\ pc = "done" /\ WellFormed /\ all_full /\ result = Ok
    /\ Len(hdrs) = 2 /\ Len(infos) = 1 /\ hdrs[2].hdr.blk_type = "Padding"

\* C4: a header whose type code is Reserved (7..126) or Forbidden (127) ends the
\* parse with UnexpectedBlockType(code): its payload is never read or skipped
\* and no further block follows.
C4_ReservedOrForbiddenIsFatal ==
    (raw_hdr # None /\ (raw_hdr[1] % 128) \in 7..127) =>
        /\ pc = "done"
        /\ result = UnexpectedBlockType(raw_hdr[1] % 128)

\* C6: a payload is decoded or skipped only after exactly `length` bytes of it
\* were read: every Streaminfo record shown was decoded from `length` bytes read
\* from the source, and every header after the first was read at the end of the
\* payload the header before it declared.
C6_PayloadReadExactly ==
    /\ \A m \in 1..Len(infos) : infos[m].got = infos[m].want
    /\ \A i \in 2..Len(hdrs) :
          hdrs[i].off = hdrs[i - 1].off + 4 + BitsToNat(hdrs[i - 1].hdr.length)

\* C7: on a source whose first 4 bytes are not the signature (the read having
\* returned all 4), read_flac_hdr fails with BadMagic reporting the 4 bytes read
\* as found and the signature as expected, before any block header is read.
C7_BadMagicReportsFound ==
    (pc = "done" /\ all_full /\ Len(src) >= 4 /\ SubSeq(src, 1, 4) # FLAC_HEADER) =>
        /\ result = BadMagic(SubSeq(src, 1, 4), FLAC_HEADER)
        /\ hdrs = << >> /\ raw_hdr = None

\* C8: the signature read and every header read fail as truncated only when fewer
\* than 4 bytes remained in the source at that position.
C8_TruncatedOnlyAtEnd ==
    result \in {TruncatedMagic, TruncatedHeader} => hdr_avail < 4

====
